---- MODULE Spec2Model ----
(***************************************************************************)
(* A model of bashlex/normalizer.py: normalize_ast and the helpers nested  *)
(* in it (attach_to_tree, find_attach_point, normalize_word,               *)
(* normalize_command, normalize), and special_command_normalization.       *)
(*                                                                         *)
(* Text is a sequence of one-character strings.  The normalized tree is an *)
(* arena: nodes[i] is the i-th Node object created, 0 stands for None.     *)
(* The raw parse tree is the parser's output; the model reveals it one     *)
(* node at a time, when the code reads that node.  The recursion of        *)
(* normalize / normalize_command is an explicit stack of loop frames.      *)
(* The parser itself (bashlex) is not modelled: a non-empty text may yield *)
(* any of the parse trees drawn, so the text matters only where the code   *)
(* reads it (stripping, the tar rewrite, the messages it is encoded into). *)
(***************************************************************************)
EXTENDS Integers, Sequences, FiniteSets, TLC

\* ------------------------------------------------------------- bounds
\* raw parse-tree nodes one call of normalize_ast may visit (wide inputs)
MaxVisits == 4
\* raw parse-tree nodes one call may visit when the input is one command of
\* plain words (the `find` expression language)
MaxVisitsDeep == 6
\* len(node.parts) of a pipeline node
MaxPipeParts == 3
\* len(tree): top-level roots the parser may yield
MaxRoots == 2
\* words of a command text given to special_command_normalization
MaxWords == 4
\* raw parse-tree nodes one call may visit (a utility nested under a flag)
MaxVisitsExec == 7
\* raw parse-tree nodes one call may visit (words with process substitutions)
MaxVisitsSubst == 6
\* raw parse-tree nodes each of two calls with the same arguments may visit
MaxVisitsTwice == 3

\* ------------------------------------------------------------- words
W_find == <<"f", "i", "n", "d">>
W_tar == <<"t", "a", "r">>
W_flag == <<"-", "n", "1">>
W_arg == <<"f", "1", "2">>
W_dashdash == <<"-", "-">>
W_semi == <<";">>
W_bang == <<"!">>
W_not == <<"-", "n", "o", "t">>
W_and == <<"-", "a", "n", "d">>
W_or == <<"-", "o", "r">>
W_o == <<"-", "o">>
W_oror == <<"|", "|">>
W_andand == <<"&", "&">>
W_procin == <<"<", "(", "f", "1", ")">>
W_procout == <<">", "(", "f", "1", ")">>
W_procboth == <<"<", "(", "f", "1", ">", "f", ")">>
W_cmdsub == <<"$", "(", "f", "1", ")">>
W_flagsub == <<"-", "I", "$", "(", "f", "1", ")">>
W_param == <<"$", "f", "1">>
W_tilde == <<"~", "/", "f", "1">>

Chars(w) == {w[i] : i \in 1..Len(w)}

\* ------------------------------------------- lexical collaborators (bash.py)
Digits == {"0", "1", "2", "3", "4", "5", "6", "7", "8", "9"}

\* _NUM, the canonical placeholder, kept as one element of the text
NUM == "_NUM"

\* is_option(word): the token is shaped like an option (leading dash)
is_option(w) == Len(w) > 0 /\ w[1] = "-"

\* head_commands: the whitelist of utility names
head_commands == {W_find, W_tar}

RECURSIVE SkipDigits(_)
SkipDigits(w) ==
    IF w # <<>> /\ Head(w) \in Digits THEN SkipDigits(Tail(w)) ELSE w

\* re.sub(_DIGIT_RE, _NUM, w): every maximal run of digits becomes _NUM
RECURSIVE re_sub_DIGIT_RE(_)
re_sub_DIGIT_RE(w) ==
    IF w = <<>> THEN <<>>
    ELSE IF Head(w) \in Digits THEN <<NUM>> \o re_sub_DIGIT_RE(SkipDigits(w))
    ELSE <<Head(w)>> \o re_sub_DIGIT_RE(Tail(w))

\* ------------------------------------------------------ logic operators
unary_logic_operators == {W_bang, W_not}

binary_logic_operators == {W_and, W_or, W_oror, W_andand, W_o}

\* -------------------------------------------------------- node model
\* num_child = -1 permits any number of children.  tok, word and eoo are
\* history fields: the ordinal of the raw node the Node was built from, that
\* raw node's word, and END_OF_OPTIONS when it was built.
Node(kind, value) ==
    [kind |-> kind, value |-> value, parent |-> 0, lsb |-> 0, rsb |-> 0,
     children |-> <<>>, num_child |-> -1, tok |-> 0, word |-> <<>>,
     eoo |-> FALSE]

ArgumentNode(kind, value) == [Node(kind, value) EXCEPT !.num_child = 0]

UnaryLogicOpNode(value) ==
    [Node("unarylogicop", value) EXCEPT !.num_child = 1]

BinaryLogicOpNode(value) ==
    [Node("binarylogicop", value) EXCEPT !.num_child = 2]

PipelineNode == Node("pipeline", <<>>)

CommandSubstitutionNode ==
    [Node("commandsubstitution", <<>>) EXCEPT !.num_child = 1]

\* ProcessSubstitutionNode that takes every value for '<'
ProcessSubstitutionNode_in(value) ==
    [Node("processsubstitution", <<"<">>) EXCEPT !.num_child = 1]

ProcessSubstitutionNode(value) ==
    [Node("processsubstitution", value) EXCEPT !.num_child = 1]

RootNode == Node("root", <<"r", "o", "o", "t">>)

getRightChild(ns, n) ==
    IF Len(ns[n].children) >= 1
    THEN ns[n].children[Len(ns[n].children)]
    ELSE 0

\* removeChild that leaves the list of children as it is
removeChild_kept(ns, n, child) == ns

\* list.remove(child): the first occurrence is removed
RECURSIVE RemoveFirst(_, _)
RemoveFirst(s, x) ==
    IF s = <<>> THEN <<>>
    ELSE IF Head(s) = x THEN Tail(s)
    ELSE <<Head(s)>> \o RemoveFirst(Tail(s), x)

removeChild(ns, n, child) ==
    [ns EXCEPT ![n].children = RemoveFirst(@, child)]

\* attach_to_tree(node, parent); the new Node object takes the next index
attach_to_tree(ns, node, parent) ==
    LET id == Len(ns) + 1
        lsb == getRightChild(ns, parent)
        ns1 == Append(ns, [node EXCEPT !.parent = parent, !.lsb = lsb])
        ns2 == [ns1 EXCEPT ![parent].children = Append(@, id)]
    IN  IF lsb # 0 THEN [ns2 EXCEPT ![lsb].rsb = id] ELSE ns2

\* find_attach_point that stays on a flag
find_attach_point_stay(ns, word, attach_point) ==
    IF ~is_option(word) THEN attach_point
    ELSE IF ns[attach_point].kind \in {"flag", "headcommand"} THEN attach_point
    ELSE -1

\* find_attach_point(node, attach_point); -1 stands for sys.exit()
find_attach_point(ns, word, attach_point) ==
    IF ~is_option(word) THEN attach_point
    ELSE IF ns[attach_point].kind = "flag" THEN ns[attach_point].parent
    ELSE IF ns[attach_point].kind = "headcommand" THEN attach_point
    ELSE -1

\* normalize_word without the test for an option
normalize_word_any(w, digits) == IF digits THEN re_sub_DIGIT_RE(w) ELSE w

normalize_word(w, digits) ==
    IF digits /\ ~is_option(w) THEN re_sub_DIGIT_RE(w) ELSE w

\* ------------------------------------------------------------- text
\* A command text is a Python 2 byte string (as sys.argv[1] in __main__).
Whitespace == {" ", "\t", "\n"}

\* \w of the `re` module: letters, digits and the underscore
WordChars ==
    {"a", "c", "d", "f", "i", "l", "n", "o", "r", "s", "t", "v", "x", "y"}
        \cup Digits \cup {"_"}

\* bytes outside ASCII
NonAscii == {"0xC3", "0xA9"}

\* cmd.encode('utf-8') of a byte string decodes it as ASCII first and
\* raises UnicodeDecodeError on a byte outside ASCII
encode_utf8_ok(cmd) == Chars(cmd) \cap NonAscii = {}

startswith(s, p) == Len(s) >= Len(p) /\ SubSeq(s, 1, Len(p)) = p

\* s.replace(old, new): occurrences left to right, not overlapping
RECURSIVE str_replace(_, _, _)
str_replace(s, old, new) ==
    IF Len(s) < Len(old) \/ old = <<>> THEN s
    ELSE IF startswith(s, old)
         THEN new \o str_replace(SubSeq(s, Len(old) + 1, Len(s)), old, new)
    ELSE <<Head(s)>> \o str_replace(Tail(s), old, new)

RECURSIVE lstrip(_)
lstrip(s) == IF s # <<>> /\ Head(s) \in Whitespace THEN lstrip(Tail(s)) ELSE s

RECURSIVE rstrip(_)
rstrip(s) ==
    IF s # <<>> /\ s[Len(s)] \in Whitespace
    THEN rstrip(SubSeq(s, 1, Len(s) - 1))
    ELSE s

strip(s) == rstrip(lstrip(s))

\* tar_fix = re.compile(' tar \w')
tar_fix_matches(s) ==
    /\ Len(s) >= 6
    /\ SubSeq(s, 1, 5) = <<" ", "t", "a", "r", " ">>
    /\ s[6] \in WordChars

\* re.findall(tar_fix, cmd): the matches left to right, not overlapping
RECURSIVE re_findall_tar_fix(_)
re_findall_tar_fix(s) ==
    IF Len(s) < 6 THEN <<>>
    ELSE IF tar_fix_matches(s)
         THEN <<SubSeq(s, 1, 6)>> \o re_findall_tar_fix(SubSeq(s, 7, Len(s)))
    ELSE re_findall_tar_fix(Tail(s))

\* the loop `for w in re.findall(tar_fix, cmd)` over the matches ws
RECURSIVE tar_fix_loop(_, _)
tar_fix_loop(cmd, ws) ==
    IF ws = <<>> THEN cmd
    ELSE tar_fix_loop(
             str_replace(cmd, Head(ws),
                         str_replace(Head(ws), <<"t", "a", "r", " ">>,
                                     <<"t", "a", "r", " ", "-">>)),
             Tail(ws))

special_command_normalization(cmd) ==
    IF startswith(cmd, W_tar)
    THEN LET c == <<" ">> \o cmd
         IN  strip(tar_fix_loop(c, re_findall_tar_fix(c)))
    ELSE cmd

\* lines 181-182 of normalize_ast
preprocess(cmd) ==
    special_command_normalization(strip(str_replace(cmd, <<"\n">>, <<" ">>)))

\* ------------------------------------------------------- raw parse tree
\* What the code reads of one raw ast.node: its kind, its word, the width
\* pos[1] - pos[0] of its source span (quotes widen it), the kind of
\* parts[0] ("none": no parts), whether it has a `parts` attribute, the length
\* of parts where the code reads it, and the kind and length of `command`.
Raw(kind) ==
    [kind |-> kind, word |-> <<>>, span |-> 0, first |-> "none",
     hasParts |-> FALSE, nparts |-> 0, command |-> "none", cparts |-> 0]

RawWord(w) ==
    [Raw("word") EXCEPT !.word = w, !.span = Len(w), !.hasParts = TRUE]

RawQuoted(w) == [RawWord(w) EXCEPT !.span = Len(w) + 2]

RawCompound(w, first) == [RawWord(w) EXCEPT !.first = first]

RawParts(kind, n) == [Raw(kind) EXCEPT !.hasParts = TRUE, !.nparts = n]

RawSubst(kind, command, n) ==
    [Raw(kind) EXCEPT !.command = command, !.cparts = n]

\* node.command of a substitution node
CommandOf(node) == RawParts(node.command, node.cparts)

\* the kinds normalize rejects with ValueError (lines 345-384)
unsupported_kinds ==
    {"operator", "parameter", "redirect", "for", "if", "while", "until",
     "assignment", "function", "tilde", "heredoc"}

\* ---------------------------------------------------------- loop frames
\* One frame per running loop: the scan and the absorption pass of
\* normalize_command, and the `for child in node.parts` loops of normalize.
\* left = -1: the parts are read until the parser's list ends.  first: the
\* kind of the next part when the code has already read it ("any" otherwise).
\* post: the caller still has `attach_point = attach_point.getRightChild()`
\* to run when the call it made returns.
Frame(fn, cur) ==
    [fn |-> fn, attach_point |-> cur, END_OF_OPTIONS |-> FALSE,
     END_OF_COMMAND |-> FALSE, unary_logic_ops |-> <<>>,
     binary_logic_ops |-> <<>>, loop |-> "scan", post |-> FALSE,
     left |-> -1, first |-> "any"]

PartsFrame(fn, cur, left, first) ==
    [Frame(fn, cur) EXCEPT !.left = left, !.first = first]

\* the outcome of one call: the arena, the frame of the loop it entered (if
\* any), how it ended ("ok" or the exception raised) and the statement that
\* raised
Ok(ns) == [ns |-> ns, push |-> <<>>, outcome |-> "ok", site |-> ""]

Enter(ns, f) == [ns |-> ns, push |-> <<f>>, outcome |-> "ok", site |-> ""]

Raise(ns, e, site) == [ns |-> ns, push |-> <<>>, outcome |-> e, site |-> site]

Built(node, raw, tk, eoo) ==
    [node EXCEPT !.tok = tk, !.word = raw.word, !.eoo = eoo]

\* normalize(node, current, arg_type); tk is the ordinal of `node`
RECURSIVE normalize(_, _, _, _, _, _, _)
normalize(ns, node, current, arg_type, digits, tk, eoo) ==
    LET id == Len(ns) + 1
        leaf == Built(ArgumentNode(arg_type, normalize_word(node.word, digits)),
                      node, tk, eoo)
    IN
    IF node.kind = "word" THEN
        IF node.first # "none" /\ node.first # "tilde" THEN
            IF node.first = "processsubstitution" THEN
                IF ">" \in Chars(node.word) THEN
                    Enter(attach_to_tree(ns,
                              Built(ProcessSubstitutionNode(<<">">>), node, tk, eoo),
                              current),
                          PartsFrame("word", id, -1, node.first))
                ELSE IF "<" \in Chars(node.word) THEN
                    Enter(attach_to_tree(ns,
                              Built(ProcessSubstitutionNode(<<"<">>), node, tk, eoo),
                              current),
                          PartsFrame("word", id, -1, node.first))
                ELSE Ok(ns)
            ELSE IF node.first = "commandsubstitution" THEN
                Enter(attach_to_tree(ns,
                          Built(CommandSubstitutionNode, node, tk, eoo), current),
                      PartsFrame("word", id, -1, node.first))
            ELSE IF node.first = "parameter" THEN
                Ok(attach_to_tree(ns, leaf, current))
            ELSE Enter(ns, PartsFrame("word", current, -1, node.first))
        ELSE Ok(attach_to_tree(ns, leaf, current))
    ELSE IF node.kind = "pipeline" THEN
        LET ns1 == attach_to_tree(ns, Built(PipelineNode, node, tk, eoo), current)
        IN  IF node.nparts % 2 = 0 THEN Raise(ns1, "SystemExit", "pipeline parts")
            ELSE Enter(ns1, PartsFrame("pipeline", id, node.nparts, "any"))
    ELSE IF node.kind = "list" THEN
        IF node.nparts > 2 THEN Raise(ns, "TypeError", "list length")
        ELSE Enter(ns, PartsFrame("parts", current, node.nparts, "any"))
    ELSE IF node.kind \in {"commandsubstitution", "processsubstitution"} THEN
        normalize(ns, CommandOf(node), current, "", digits, tk + 1, eoo)
    ELSE IF node.kind = "command" THEN
        Enter(ns, Frame("normalize_command", current))
    ELSE IF node.hasParts THEN
        Enter(ns, PartsFrame("parts", current, -1, "any"))
    ELSE IF node.kind \in unsupported_kinds THEN Raise(ns, "ValueError", "unsupported")
    ELSE Ok(ns)

\* One result of a loop step: the call's outcome r and the caller's frame f
Step(r, f) == [r |-> r, f |-> f]

\* lines 220-230: the attach point after a `;`, 0 for None, -1 for sys.exit()
end_of_command_pop(ns, attach_point) ==
    LET p == ns[attach_point].parent
    IN  IF p = 0 THEN 0
        ELSE IF ns[p].kind = "flag" THEN ns[p].parent
        ELSE IF ns[p].kind = "headcommand" THEN p
        ELSE -1

\* lines 231-262: one part `child` of the command, at attach point ap
command_part(ns, f, ap, child, digits, tk) ==
    LET id == Len(ns) + 1
        w == child.word
        eoo == f.END_OF_OPTIONS
        g == [f EXCEPT !.attach_point = ap, !.END_OF_COMMAND = FALSE]
        fap == find_attach_point(ns, w, ap)
    IN
    IF child.kind = "word" THEN
        IF w = W_dashdash THEN
            Step(Ok(ns), [g EXCEPT !.END_OF_OPTIONS = TRUE])
        ELSE IF w = W_semi THEN
            Step(Ok(ns), [g EXCEPT !.END_OF_COMMAND = TRUE])
        ELSE IF w \in unary_logic_operators THEN
            IF fap = -1 THEN Step(Raise(ns, "SystemExit", "attach point"), g)
            ELSE Step(Ok(attach_to_tree(ns,
                             Built(UnaryLogicOpNode(w), child, tk, eoo), fap)),
                      [g EXCEPT !.attach_point = fap,
                                !.unary_logic_ops = Append(@, id)])
        ELSE IF w \in binary_logic_operators THEN
            IF fap = -1 THEN Step(Raise(ns, "SystemExit", "attach point"), g)
            ELSE Step(Ok(attach_to_tree(ns,
                             Built(BinaryLogicOpNode(w), child, tk, eoo), fap)),
                      [g EXCEPT !.attach_point = fap,
                                !.binary_logic_ops = Append(@, id)])
        ELSE IF w \in head_commands THEN
            IF Len(w) = child.span THEN
                LET r == normalize(ns, child, ap, "headcommand", digits, tk, eoo)
                IN  Step(r, [g EXCEPT !.attach_point = getRightChild(r.ns, ap)])
            ELSE Step(Ok(ns), g)
        ELSE IF is_option(w) /\ ~eoo THEN
            IF fap = -1 THEN Step(Raise(ns, "SystemExit", "attach point"), g)
            ELSE LET r == normalize(ns, child, fap, "flag", digits, tk, eoo)
                 IN  IF r.push = <<>>
                     THEN Step(r, [g EXCEPT !.attach_point = getRightChild(r.ns, fap)])
                     ELSE Step(r, [g EXCEPT !.attach_point = fap, !.post = TRUE])
        ELSE Step(normalize(ns, child, ap, "argument", digits, tk, eoo), g)
    ELSE Step(Raise(ns, "SystemExit", "child of command"), g)

\* lines 219-262: one iteration of `for child in node.parts`
normalize_command_scan(ns, f, child, digits, tk) ==
    LET ap == IF f.END_OF_COMMAND
              THEN end_of_command_pop(ns, f.attach_point)
              ELSE f.attach_point
    IN  IF ap = 0 THEN Step(Raise(ns, "AttributeError", "attach point of None"), f)
        ELSE IF ap = -1 THEN Step(Raise(ns, "SystemExit", "compound command"), f)
        ELSE command_part(ns, f, ap, child, digits, tk)

\* normalize_command_absorb absorbing the left sibling instead of the right
normalize_command_absorb_left(ns, f) ==
    LET node == Head(f.unary_logic_ops)
        lsb == ns[node].lsb
        g == [f EXCEPT !.unary_logic_ops = Tail(@)]
    IN  IF lsb = 0 THEN Step(Raise(ns, "AssertionError", "missing operand"), g)
        ELSE LET ns1 == removeChild(ns, ns[node].parent, lsb)
                 ns2 == [ns1 EXCEPT ![lsb].parent = node,
                                    ![lsb].lsb = 0,
                                    ![lsb].rsb = 0]
                 ns3 == [ns2 EXCEPT ![node].children = Append(@, lsb)]
             IN  Step(Ok([ns3 EXCEPT ![node].lsb = 0]), g)

\* normalize_command_absorb that keeps the operator for another round while
\* it has a right sibling
normalize_command_absorb_greedy(ns, f) ==
    LET node == Head(f.unary_logic_ops)
        rsb == ns[node].rsb
        g == [f EXCEPT !.unary_logic_ops = Tail(@)]
    IN  IF rsb = 0 THEN Step(Raise(ns, "AssertionError", "missing operand"), g)
        ELSE LET ns1 == removeChild(ns, ns[node].parent, rsb)
                 ns2 == [ns1 EXCEPT ![rsb].parent = node,
                                    ![rsb].lsb = 0,
                                    ![rsb].rsb = 0]
                 ns3 == [ns2 EXCEPT ![node].children = Append(@, rsb)]
                 next == ns[rsb].rsb
             IN  Step(Ok([ns3 EXCEPT ![node].rsb = next]),
                      IF next = 0 THEN g ELSE f)

\* lines 265-274: the absorption pass for one recorded unary operator
normalize_command_absorb(ns, f) ==
    LET node == Head(f.unary_logic_ops)
        rsb == ns[node].rsb
        g == [f EXCEPT !.unary_logic_ops = Tail(@)]
    IN  IF rsb = 0 THEN Step(Raise(ns, "AssertionError", "missing operand"), g)
        ELSE LET ns1 == removeChild(ns, ns[node].parent, rsb)
                 ns2 == [ns1 EXCEPT ![rsb].parent = node,
                                    ![rsb].lsb = 0,
                                    ![rsb].rsb = 0]
                 ns3 == [ns2 EXCEPT ![node].children = Append(@, rsb)]
             IN  Step(Ok([ns3 EXCEPT ![node].rsb = 0]), g)

\* lines 320-328: one part of a pipeline node
pipeline_part(ns, f, child, digits, tk) ==
    IF child.kind = "command"
    THEN normalize(ns, child, f.attach_point, "", digits, tk, FALSE)
    ELSE IF child.kind = "pipe" THEN Ok(ns)
    ELSE Raise(ns, "SystemExit", "child of pipeline")

\* a call returns to the frame below it
return_to(ns, stk) ==
    IF stk # <<>> /\ stk[Len(stk)].post
    THEN [stk EXCEPT ![Len(stk)].attach_point = getRightChild(ns, @),
                     ![Len(stk)].post = FALSE]
    ELSE stk

\* ------------------------------------------------------------- state
VARIABLES
    input_class,        \* which inputs the run draws: "any" or "words"
    cmd_in,             \* the argument cmd of the call
    cmd,                \* the local cmd after lines 181-182
    normalize_digits,   \* the argument normalize_digits
    pc,                 \* where normalize_ast is
    result,             \* how the call ended: "tree", "None" or an exception
    raised,             \* the error met: parser failure or raising statement
    nroots,             \* len(tree), the parser's top-level roots
    nodes,              \* the Node objects created, normalized_tree first
    stack,              \* the running loops, innermost last
    raws,               \* the raw nodes read so far, in the order read
    script,             \* what the parser's tree has answered in this call
    calls,              \* 1 in the first call, 2 in a repeated call
    first,              \* the outcome of the first call, for the repeated one
    \* clean_data.py, DBConnection.dump_data
    pairs_in,           \* what unique_pairs returned, one dictionary per url
    pairs,              \* the local pairs, the dictionaries as merged so far
    merged_urls_by_nl,  \* the urls the second pass merged into a later one
    merged_urls_by_cmd, \* the urls the third pass merged into a later one
    data,               \* the folds: the (nl, cmd) tuples of each bin
    dump_pc,            \* where dump_data is: the loop and its index i
    \* decode_tools.py, translate_fun and decode
    FLAGS,              \* the flags the call is given
    slot_filling_classifier,    \* the argument: None or a classifier
    entities,           \* the local entities of translate_fun
    model_outputs,      \* what model.step returned
    nl_fillers,         \* the local of translate_fun, the argument of decode
    cm_slots,           \* decode: the argument slots of the prediction
    translate_pc        \* where translate_fun or decode is, or the exception

normalizer ==
    <<input_class, cmd_in, cmd, normalize_digits, pc, result, raised, nroots,
      nodes, stack, raws, script, calls, first>>

clean_data ==
    <<pairs_in, pairs, merged_urls_by_nl, merged_urls_by_cmd, data, dump_pc>>

decode_tools ==
    <<FLAGS, slot_filling_classifier, entities, model_outputs, nl_fillers,
      cm_slots, translate_pc>>

vars == <<normalizer, clean_data, decode_tools>>

session == <<calls, first>>

inputs == <<input_class, cmd_in, cmd, normalize_digits, nroots>>

visits == Len(raws)

\* ------------------------------------------------------------- inputs
T_ls == <<"l", "s">>

\* the input classes that draw any parse tree
WideClasses == {"any", "twice", "whole"}

CmdTexts(class) ==
    IF class = "whole" THEN {<<>>, T_ls}
    ELSE IF class \in WideClasses
    THEN {<<>>, <<"\n", " ">>, T_ls, <<"l", "s", "0xC3", "0xA9">>}
    ELSE {T_ls}

Fuel(class) ==
    IF class \in {"any", "whole"} THEN MaxVisits
    ELSE IF class = "twice" THEN MaxVisitsTwice
    ELSE IF class = "exec" THEN MaxVisitsExec
    ELSE IF class = "subst" THEN MaxVisitsSubst
    ELSE MaxVisitsDeep

\* the failures of parser.parse that normalize_ast handles
ParserFailures ==
    {"MatchedPairError", "ParsingError", "NotImplementedError", "IndexError",
     "AttributeError"}

PlainWords ==
    {W_find, W_flag, W_arg, W_dashdash, W_semi, W_bang, W_not, W_and}

\* the words of a utility that runs another under a flag, closed by `;`
ExecWords == {W_find, W_flag, W_arg, W_semi}

\* word parts are expansions: tilde, parameter, command and process
\* substitution
CompoundWords ==
    {RawCompound(W_procin, "processsubstitution"),
     RawCompound(W_procout, "processsubstitution"),
     RawCompound(W_cmdsub, "commandsubstitution"),
     RawCompound(W_flagsub, "commandsubstitution"),
     RawCompound(W_param, "parameter"),
     RawCompound(W_tilde, "tilde")}

\* words whose first part is a process substitution
ProcessSubstitutionWords ==
    {RawCompound(w, "processsubstitution") :
        w \in {W_procin, W_procout, W_procboth}}

CommandParts(class) ==
    IF class = "exec" THEN {RawWord(w) : w \in ExecWords}
    ELSE IF class = "subst" THEN
        {RawWord(W_find), RawWord(W_arg)} \cup ProcessSubstitutionWords
    ELSE {RawWord(w) : w \in PlainWords} \cup
         (IF class \in WideClasses
          THEN {RawQuoted(W_find), Raw("redirect"), Raw("assignment")}
                   \cup CompoundWords
          ELSE {})

SubstCommands ==
    {RawParts("command", 0)} \cup
    {RawParts("pipeline", n) : n \in 1..MaxPipeParts}

Substs(kind) == {RawSubst(kind, c.kind, c.nparts) : c \in SubstCommands}

GenericParts ==
    {RawParts("command", 0), RawWord(W_arg), Raw("reservedword"),
     Raw("operator")}

RootNodes(class) ==
    {RawParts("command", 0)} \cup
    (IF class \in WideClasses
     THEN {RawParts("pipeline", n) : n \in 1..MaxPipeParts}
              \cup {RawParts("list", n) : n \in 1..3}
              \cup {Raw(k) : k \in unsupported_kinds \cup {"compound"}}
              \cup {RawParts(k, 0) : k \in unsupported_kinds}
     ELSE {RawParts("pipeline", 1)})

\* the parts a `for child in node.parts` loop of normalize may read next
PartChoices(f) ==
    IF f.fn = "pipeline" THEN
        {RawParts("command", 0), Raw("pipe"), Raw("compound")}
    ELSE IF f.first \in {"commandsubstitution", "processsubstitution"} THEN
        Substs(f.first)
    ELSE IF f.fn = "word" /\ f.first = "any" THEN
        {Raw("parameter"), RawSubst("commandsubstitution", "command", 0)}
    ELSE GenericParts

\* ------------------------------------------------------------- actions
Top == stack[Len(stack)]

Below == SubSeq(stack, 1, Len(stack) - 1)

\* the raw nodes a call of normalize on `node` reads before it enters a loop
ReadOf(node) ==
    IF node.kind \in {"commandsubstitution", "processsubstitution"}
    THEN <<node, CommandOf(node)>>
    ELSE <<node>>

\* the handler of lines 414-416, and the exceptions nothing handles
Caught(outcome) ==
    IF outcome = "ValueError"
    THEN IF encode_utf8_ok(cmd) THEN "None" ELSE "UnicodeDecodeError"
    ELSE outcome

\* the answer of a parts list that has no further part
EndOfParts == Raw("end of parts")

\* line 411
normalized_tree_kept ==
    IF calls = 2 /\ first.result = "tree" THEN first.nodes ELSE <<RootNode>>

normalized_tree == <<RootNode>>

\* The parser's tree answers a: it is deterministic, so in a repeated call
\* of the same text the answer is the one the first call got.
Yields(a) ==
    /\ calls = 2 => /\ Len(script) < Len(first.script)
                    /\ first.script[Len(script) + 1] = a
    /\ script' = Append(script, a)

\* the state after a call that ended as r, with the callers' frames stk
Continue(r, stk) ==
    /\ nodes' = r.ns
    /\ IF r.outcome = "ok"
       THEN /\ stack' = (IF r.push = <<>> THEN return_to(r.ns, stk)
                         ELSE stk \o r.push)
            /\ pc' = "normalize"
            /\ UNCHANGED <<result, raised>>
       ELSE /\ stack' = <<>>
            /\ pc' = "done"
            /\ result' = Caught(r.outcome)
            /\ raised' = r.site

\* the raw nodes that the loops entered have still to read: the parts that
\* are left of a counted list, or the substitution a word begins with and
\* the command inside it
RECURSIVE Owed(_)
Owed(stk) ==
    IF stk = <<>> THEN 0
    ELSE LET f == Head(stk)
         IN  (IF f.fn = "normalize_command" THEN 0
              ELSE IF f.left > 0 THEN f.left
              ELSE IF f.left = -1 /\ f.first # "any" THEN 2
              ELSE 0) + Owed(Tail(stk))

\* in the class "whole" the parser's tree is one of at most Fuel raw nodes:
\* what the loops have still to read is within what is left of it
Whole(stk, read) ==
    input_class = "whole" => Owed(stk) <= Fuel(input_class) - Len(read)

\* normalize_ast is called: lines 181-185
Call ==
    /\ pc = "call"
    /\ \E c \in CmdTexts(input_class), d \in BOOLEAN :
          /\ calls = 2 => (c = cmd_in /\ d = normalize_digits)
          /\ cmd_in' = c
          /\ normalize_digits' = d
          /\ cmd' = preprocess(c)
          /\ IF preprocess(c) = <<>>
             THEN pc' = "done" /\ result' = "None"
             ELSE pc' = "parse" /\ UNCHANGED result
    /\ UNCHANGED <<input_class, raised, nroots, nodes, stack, raws, script,
                   session>>
    /\ UNCHANGED <<clean_data, decode_tools>>

\* lines 386-413: parser.parse fails, or yields n roots and the first is
\* given to normalize
Parse ==
    /\ pc = "parse"
    /\ \/ /\ \E e \in ParserFailures : Yields(Raw(e)) /\ raised' = e
          /\ result' = (IF encode_utf8_ok(cmd) THEN "None"
                        ELSE "UnicodeDecodeError")
          /\ pc' = "done"
          /\ UNCHANGED <<inputs, nodes, stack, raws, session>>
       \/ \E n \in 1..MaxRoots :
             /\ calls = 2 => n = nroots
             /\ nroots' = n
             /\ IF n > 1 /\ ~encode_utf8_ok(cmd)
                THEN /\ pc' = "done"
                     /\ result' = "UnicodeDecodeError"
                     /\ raised' = "multiple root nodes"
                     /\ UNCHANGED <<nodes, stack, raws, script>>
                ELSE \E root \in RootNodes(input_class) :
                        /\ Yields(root)
                        /\ Continue(normalize(normalized_tree, root, 1, "",
                                              normalize_digits, 1, FALSE),
                                    <<>>)
                        /\ raws' = ReadOf(root)
                        /\ Whole(stack', raws')
             /\ UNCHANGED <<input_class, cmd_in, cmd, normalize_digits, session>>
    /\ UNCHANGED <<clean_data, decode_tools>>

\* normalize_command, lines 219-262: the loop reads its next part, or ends
Scan ==
    /\ pc = "normalize" /\ stack # <<>>
    /\ Top.fn = "normalize_command" /\ Top.loop = "scan"
    /\ \/ /\ Yields(EndOfParts)
          /\ stack' = Append(Below, [Top EXCEPT !.loop = "absorb"])
          /\ UNCHANGED <<inputs, pc, result, raised, nodes, raws>>
       \/ /\ visits < Fuel(input_class)
          /\ \E child \in CommandParts(input_class) :
                LET s == normalize_command_scan(nodes, Top, child,
                                                normalize_digits, visits + 1)
                IN  /\ Yields(child)
                    /\ Continue(s.r, Append(Below, s.f))
                    /\ raws' = raws \o ReadOf(child)
                    /\ Whole(stack', raws')
          /\ UNCHANGED inputs
    /\ UNCHANGED session
    /\ UNCHANGED <<clean_data, decode_tools>>

\* normalize_command, lines 265-274: the pass absorbs for its next recorded
\* operator, or ends and normalize_command returns
Absorb ==
    /\ pc = "normalize" /\ stack # <<>>
    /\ Top.fn = "normalize_command" /\ Top.loop = "absorb"
    /\ IF Top.unary_logic_ops = <<>>
       THEN /\ stack' = return_to(nodes, Below)
            /\ UNCHANGED <<pc, result, raised, nodes>>
       ELSE LET s == normalize_command_absorb(nodes, Top)
            IN  Continue(s.r, Append(Below, s.f))
    /\ UNCHANGED <<inputs, raws, script, session>>
    /\ UNCHANGED <<clean_data, decode_tools>>

\* a `for child in node.parts` loop of normalize reads its next part, or ends
Parts ==
    /\ pc = "normalize" /\ stack # <<>>
    /\ Top.fn # "normalize_command"
    /\ \/ /\ Top.left = 0 \/ (Top.left = -1 /\ Top.first = "any")
          /\ Yields(EndOfParts)
          /\ stack' = return_to(nodes, Below)
          /\ UNCHANGED <<pc, result, raised, nodes, raws>>
       \/ /\ Top.left # 0
          /\ visits < Fuel(input_class)
          /\ \E child \in PartChoices(Top) :
                LET f == [Top EXCEPT !.first = "any",
                                     !.left = IF @ > 0 THEN @ - 1 ELSE @]
                    r == IF Top.fn = "pipeline"
                         THEN pipeline_part(nodes, Top, child,
                                            normalize_digits, visits + 1)
                         ELSE normalize(nodes, child, Top.attach_point, "",
                                        normalize_digits, visits + 1, FALSE)
                IN  /\ Yields(child)
                    /\ Continue(r, Append(Below, f))
                    /\ raws' = raws \o ReadOf(child)
                    /\ Whole(stack', raws')
    /\ UNCHANGED <<inputs, session>>
    /\ UNCHANGED <<clean_data, decode_tools>>

\* line 418: normalize returned, normalize_ast returns normalized_tree
Return ==
    /\ pc = "normalize" /\ stack = <<>>
    /\ pc' = "done"
    /\ result' = "tree"
    /\ UNCHANGED <<inputs, raised, nodes, stack, raws, script, session>>
    /\ UNCHANGED <<clean_data, decode_tools>>

\* the caller calls normalize_ast once more, with the same arguments
Again ==
    /\ pc = "done" /\ calls = 1
    /\ calls' = 2
    /\ first' = [result |-> result, nodes |-> nodes, script |-> script]
    /\ pc' = "call"
    /\ result' = "pending"
    /\ raised' = ""
    /\ nodes' = <<>>
    /\ stack' = <<>>
    /\ raws' = <<>>
    /\ script' = <<>>
    /\ UNCHANGED inputs
    /\ UNCHANGED <<clean_data, decode_tools>>

\* dump_data is not called
NoDump ==
    /\ pairs_in = <<>>
    /\ pairs = <<>>
    /\ merged_urls_by_nl = {}
    /\ merged_urls_by_cmd = {}
    /\ data = <<>>
    /\ dump_pc = [at |-> "idle", i |-> 0]

\* a local that is not bound yet, the value None, and a dictionary of
\* argument slots
unbound == <<"unbound">>

None == <<"None">>

dict(slots) == <<"dict", slots>>

step_not_run ==
    [encoder_hidden_states |-> "unbound", decoder_hidden_states |-> "unbound"]

\* translate_fun is not called
NoTranslate ==
    /\ FLAGS = <<>>
    /\ slot_filling_classifier = "None"
    /\ entities = unbound
    /\ model_outputs = step_not_run
    /\ nl_fillers = unbound
    /\ cm_slots = unbound
    /\ translate_pc = "idle"

\* normalize_ast is not called
NoNormalize ==
    /\ input_class = "none"
    /\ cmd_in = <<>>
    /\ cmd = <<>>
    /\ normalize_digits = FALSE
    /\ pc = "idle"
    /\ result = "pending"
    /\ raised = ""
    /\ nroots = 0
    /\ nodes = <<>>
    /\ stack = <<>>
    /\ raws = <<>>
    /\ script = <<>>
    /\ calls = 1
    /\ first = [result |-> "pending", nodes |-> <<>>, script |-> <<>>]

Start(class) ==
    /\ input_class = class
    /\ cmd_in = <<>>
    /\ cmd = <<>>
    /\ normalize_digits = FALSE
    /\ pc = "call"
    /\ result = "pending"
    /\ raised = ""
    /\ nroots = 0
    /\ nodes = <<>>
    /\ stack = <<>>
    /\ raws = <<>>
    /\ script = <<>>
    /\ calls = 1
    /\ first = [result |-> "pending", nodes |-> <<>>, script |-> <<>>]
    /\ NoDump /\ NoTranslate

Init == Start("any")

InitWords == Start("words")

Next == Call \/ Parse \/ Scan \/ Absorb \/ Parts \/ Return

\* any parse tree the parser may yield, up to MaxVisits raw nodes
Spec == Init /\ [][Next]_vars

\* one command (or a pipeline of one) of plain words, up to MaxVisitsDeep
SpecWords == InitWords /\ [][Next]_vars

InitWhole == Start("whole")

\* any parse tree of at most MaxVisits raw nodes, and no step of the call put
\* off forever: the interpreter runs the call's one thread until it returns
SpecWhole == InitWhole /\ [][Next]_vars /\ WF_vars(Next)

InitExec == Start("exec")

\* one command of the words of ExecWords, up to MaxVisitsExec raw nodes
SpecExec == InitExec /\ [][Next]_vars

InitSubst == Start("subst")

\* one command with words whose first part is a process substitution, up to
\* MaxVisitsSubst raw nodes
SpecSubst == InitSubst /\ [][Next]_vars

InitTwice == Start("twice")

NextTwice == Call \/ Parse \/ Scan \/ Absorb \/ Parts \/ Return \/ Again

\* two calls with the same arguments, the parser yielding the same tree
SpecTwice == InitTwice /\ [][NextTwice]_vars

\* ------------------------------------------- special_command_normalization
T_tarx == <<"t", "a", "r", "x">>

T_x == <<"x">>

T_dash_x == <<"-", "x">>

TarWords == {W_tar, T_tarx, T_x, T_dash_x}

Separators == {<<" ">>, <<" ", " ">>}

\* the command texts of n words
RECURSIVE TarTexts(_)
TarTexts(n) ==
    IF n = 1 THEN TarWords
    ELSE {t \o sep \o w : t \in TarTexts(n - 1), sep \in Separators,
                          w \in TarWords}

TarInputs == UNION {TarTexts(n) : n \in 1..MaxWords}

InitTar ==
    /\ input_class = "text"
    /\ cmd_in \in TarInputs
    /\ cmd = cmd_in
    /\ normalize_digits = FALSE
    /\ pc = "special"
    /\ result = "pending"
    /\ raised = ""
    /\ nroots = 0
    /\ nodes = <<>>
    /\ stack = <<>>
    /\ raws = <<>>
    /\ script = <<>>
    /\ calls = 1
    /\ first = [result |-> "pending", nodes |-> <<>>, script |-> <<>>]
    /\ NoDump /\ NoTranslate

\* lines 163-171
SpecialCommandNormalization ==
    /\ pc = "special"
    /\ cmd' = special_command_normalization(cmd)
    /\ pc' = "special done"
    /\ UNCHANGED <<input_class, cmd_in, normalize_digits, result, raised,
                   nroots, nodes, stack, raws, script, session>>
    /\ UNCHANGED <<clean_data, decode_tools>>

NextTar == SpecialCommandNormalization

\* special_command_normalization applied to command texts of up to MaxWords
\* words
SpecTar == InitTar /\ [][NextTar]_vars

\* --------------------------------------- clean_data.py: dump_data
\* In the model the urls are numbered from 1 (urls[0] is url 1).
MaxUrls == 3

num_folds == 10

top_k == 5

\* descriptions and commands of the Pairs table
NLs == {"list files", "list files\n", "find x"}

Cmds == {"find a", "find b", "find -name a"}

\* " ".join(basic_tokenizer(nl))
nl_template(nl) == IF nl = "list files\n" THEN "list files" ELSE nl

\* cmd2template(cmd, arg_type_only=split_by_template)
cmd2template(c) ==
    IF c = "find -name a" THEN "find -name Regex" ELSE "find File"

\* s.strip().replace('\n', ' ').replace('\r', ' ')
strip_replace(s) == IF s = "list files\n" THEN "list files" ELSE s

\* unique_pairs, lines 162-180: a dictionary url -> nl -> set of commands;
\* here every url comes with one pair
unique_pairs(n) == [1..n -> {[nl \in {d} |-> {c}] : d \in NLs, c \in Cmds}]

\* the templates by which a pass compares two url clusters
templates(cluster, by) ==
    IF by = "nl" THEN {nl_template(nl) : nl \in DOMAIN cluster}
    ELSE {cmd2template(c) : c \in UNION {cluster[nl] : nl \in DOMAIN cluster}}

\* url2_of looking at the next url only
url2_of_next(ps, i, skipped, by) ==
    IF /\ i < Len(ps)
       /\ i + 1 \notin skipped
       /\ templates(ps[i], by) \cap templates(ps[i + 1], by) # {}
    THEN i + 1 ELSE 0

\* lines 240-260 and 277-306: the first later url that shares a template with
\* url i, none (0) if there is no such url
url2_of(ps, i, skipped, by) ==
    LET js == {j \in (i + 1)..Len(ps) :
                 /\ j \notin skipped
                 /\ templates(ps[i], by) \cap templates(ps[j], by) # {}}
    IN  IF js = {} THEN 0 ELSE CHOOSE j \in js : \A k \in js : j <= k

\* lines 262-266 and 308-312: pairs[url2] after the merge of pairs[url]
merge(cluster, cluster2) ==
    [nl \in DOMAIN cluster \cup DOMAIN cluster2 |->
        IF nl \in DOMAIN cluster
        THEN IF nl \in DOMAIN cluster2 THEN cluster[nl] \cup cluster2[nl]
             ELSE cluster[nl]
        ELSE cluster2[nl]]

RECURSIVE Ascending(_)
Ascending(S) ==
    IF S = {} THEN <<>>
    ELSE LET m == CHOOSE x \in S : \A y \in S : x <= y
         IN  <<m>> \o Ascending(S \ {m})

\* lines 316-322
remained_urls ==
    Ascending({i \in 1..Len(pairs) :
                 i \notin merged_urls_by_cmd /\ i \notin merged_urls_by_nl})

\* line 323: the key is the same for every url (it reads the stale local
\* url), and a stable sort leaves such a list as it is
sorted_urls == remained_urls

\* where the loops stand after round i of the loop `at`
after(at, i) ==
    IF i < Len(pairs) THEN [at |-> at, i |-> i + 1]
    ELSE IF at = "nl" THEN [at |-> "cmd", i |-> 1]
    ELSE [at |-> "fold", i |-> 1]

\* lines 227-233
DumpData ==
    /\ dump_pc.at = "call"
    /\ \E n \in 0..MaxUrls : \E ps \in unique_pairs(n) :
          /\ pairs_in' = ps
          /\ pairs' = ps
          /\ dump_pc' = (IF n = 0 THEN [at |-> "fold", i |-> 1]
                         ELSE [at |-> "nl", i |-> 1])
    /\ UNCHANGED <<merged_urls_by_nl, merged_urls_by_cmd, data>>
    /\ UNCHANGED <<normalizer, decode_tools>>

\* lines 237-267: one round of the second pass
MergeByNl ==
    /\ dump_pc.at = "nl"
    /\ LET i == dump_pc.i
           url2 == url2_of(pairs, i, {}, "nl")
       IN  /\ IF url2 # 0
              THEN /\ pairs' = [pairs EXCEPT
                                  ![url2] = merge(pairs[i], pairs[url2])]
                   /\ merged_urls_by_nl' = merged_urls_by_nl \cup {i}
              ELSE UNCHANGED <<pairs, merged_urls_by_nl>>
           /\ dump_pc' = after("nl", i)
    /\ UNCHANGED <<pairs_in, merged_urls_by_cmd, data>>
    /\ UNCHANGED <<normalizer, decode_tools>>

\* lines 273-313: one round of the third pass
MergeByCmd ==
    /\ dump_pc.at = "cmd"
    /\ LET i == dump_pc.i
           url2 == url2_of(pairs, i, merged_urls_by_nl, "cmd")
       IN  /\ IF i \notin merged_urls_by_nl /\ url2 # 0
              THEN /\ pairs' = [pairs EXCEPT
                                  ![url2] = merge(pairs[i], pairs[url2])]
                   /\ merged_urls_by_cmd' = merged_urls_by_cmd \cup {i}
              ELSE UNCHANGED <<pairs, merged_urls_by_cmd>>
           /\ dump_pc' = after("cmd", i)
    /\ UNCHANGED <<pairs_in, merged_urls_by_nl, data>>
    /\ UNCHANGED <<normalizer, decode_tools>>

\* line 325: data, a defaultdict(list), has an empty bin for every fold
no_data == [ind \in 0..(num_folds - 1) |-> {}]

bin(ind) == data[ind]

\* lines 360-369: the tuples of a url cluster that go into its bin
tuples(cluster) ==
    UNION {{<<strip_replace(nl), strip_replace(c)>> : c \in cluster[nl]} :
             nl \in DOMAIN cluster}

\* lines 338-369: one round of the loop over sorted_urls
Fold ==
    /\ dump_pc.at = "fold"
    /\ dump_pc.i <= Len(sorted_urls)
    /\ LET i == dump_pc.i
           url == sorted_urls[i]
           folds == IF i - 1 < top_k THEN 0..(num_folds - 3)
                    ELSE 0..(num_folds - 1)
       IN  \E ind \in folds :
              data' = [f \in DOMAIN data |->
                         IF f = ind
                         THEN bin(ind) \cup tuples(pairs[url])
                         ELSE data[f]]
    /\ dump_pc' = [dump_pc EXCEPT !.i = @ + 1]
    /\ UNCHANGED <<pairs_in, pairs, merged_urls_by_nl, merged_urls_by_cmd>>
    /\ UNCHANGED <<normalizer, decode_tools>>

\* lines 371-383: the counts are printed (num_urls may be 0) and data dumped
Dump ==
    /\ dump_pc.at = "fold"
    /\ dump_pc.i > Len(sorted_urls)
    /\ dump_pc' = [dump_pc EXCEPT
                     !.at = IF Len(sorted_urls) = 0 THEN "ZeroDivisionError"
                            ELSE "dumped"]
    /\ UNCHANGED <<pairs_in, pairs, merged_urls_by_nl, merged_urls_by_cmd,
                   data>>
    /\ UNCHANGED <<normalizer, decode_tools>>

InitDump ==
    /\ NoNormalize /\ NoTranslate
    /\ pairs_in = <<>>
    /\ pairs = <<>>
    /\ merged_urls_by_nl = {}
    /\ merged_urls_by_cmd = {}
    /\ data = no_data
    /\ dump_pc = [at |-> "call", i |-> 0]

NextDump == DumpData \/ MergeByNl \/ MergeByCmd \/ Fold \/ Dump

\* dump_data on up to MaxUrls urls
SpecDump == InitDump /\ [][NextDump]_vars

\* ------------------------------ decode_tools.py: translate_fun, decode
MaxFillers == 2

\* the argument slots of a sentence or of a predicted command, by position
Slots == SUBSET (1..MaxFillers)

\* FLAGS, as far as translate_fun and the head of decode read it
FlagSets == [fill_argument_slots : BOOLEAN, explain : BOOLEAN, char : BOOLEAN]

\* lines 22-48 and 321-356: the callers hand on the classifier they made, or
\* None
Classifiers == {"None", "KNearestNeighborModel"}

\* lines 73-88: translate_fun is called
TranslateFun ==
    /\ translate_pc = "call"
    /\ \E F \in FlagSets, c \in Classifiers :
          /\ FLAGS' = F
          /\ slot_filling_classifier' = c
    /\ translate_pc' = "tokenize"
    /\ UNCHANGED <<entities, model_outputs, nl_fillers, cm_slots>>
    /\ UNCHANGED <<normalizer, clean_data>>

\* lines 90-105: only the branches without FLAGS.explain bind entities
Tokenize ==
    /\ translate_pc = "tokenize"
    /\ IF FLAGS.explain
       THEN UNCHANGED entities
       ELSE \E fillers \in Slots : entities' = <<dict(fillers)>>
    /\ translate_pc' = "step"
    /\ UNCHANGED <<FLAGS, slot_filling_classifier, model_outputs, nl_fillers,
                   cm_slots>>
    /\ UNCHANGED <<normalizer, clean_data>>

\* model.step(..., return_rnn_hidden_states=h): the hidden states are
\* returned when asked for
step(h) ==
    [encoder_hidden_states |-> IF h THEN "states" ELSE "None",
     decoder_hidden_states |-> IF h THEN "states" ELSE "None"]

\* lines 107-122
ModelStep ==
    /\ translate_pc = "step"
    /\ model_outputs' = step(FLAGS.fill_argument_slots)
    /\ translate_pc' = "fillers"
    /\ UNCHANGED <<FLAGS, slot_filling_classifier, entities, nl_fillers,
                   cm_slots>>
    /\ UNCHANGED <<normalizer, clean_data>>

\* lines 124-129: nl_fillers is set, and decode is called
Fillers ==
    /\ translate_pc = "fillers"
    /\ IF ~FLAGS.fill_argument_slots
       THEN nl_fillers' = None /\ translate_pc' = "decode"
       ELSE IF slot_filling_classifier = "None"
       THEN nl_fillers' = None
            /\ translate_pc' = "AssertionError in translate_fun"
       ELSE IF entities = unbound
       THEN nl_fillers' = None /\ translate_pc' = "UnboundLocalError"
       ELSE nl_fillers' = entities[1] /\ translate_pc' = "decode"
    /\ UNCHANGED <<FLAGS, slot_filling_classifier, entities, model_outputs,
                   cm_slots>>
    /\ UNCHANGED <<normalizer, clean_data>>

\* lines 149-152: the assertions at the top of decode
decode_asserts(fillers, classifier, outputs) ==
    fillers # None =>
        /\ classifier = "None"
        /\ outputs.encoder_hidden_states = "None"
        /\ outputs.decoder_hidden_states = "None"

\* lines 134-152: decode is entered
Decode ==
    /\ translate_pc = "decode"
    /\ translate_pc' =
          (IF decode_asserts(nl_fillers, slot_filling_classifier,
                             model_outputs)
           THEN "prediction" ELSE "AssertionError in decode")
    /\ UNCHANGED <<FLAGS, slot_filling_classifier, entities, model_outputs,
                   nl_fillers, cm_slots>>
    /\ UNCHANGED <<normalizer, clean_data>>

\* lines 178-268: the prediction is read, its argument slots are collected
\* when there are fillers, and it is output if it can hold them
Prediction ==
    /\ translate_pc = "prediction"
    /\ IF nl_fillers = None
       THEN /\ UNCHANGED cm_slots
            /\ translate_pc' = "output"
       ELSE \E slots \in Slots :
               /\ cm_slots' = dict(slots)
               /\ translate_pc' =
                     (IF Cardinality(slots) >= Cardinality(nl_fillers[2])
                      THEN "output" ELSE "filtered")
    /\ UNCHANGED <<FLAGS, slot_filling_classifier, entities, model_outputs,
                   nl_fillers>>
    /\ UNCHANGED <<normalizer, clean_data>>

\* lines 131 and 306: decode and translate_fun return
Returns ==
    /\ translate_pc \in {"output", "filtered"}
    /\ translate_pc' = "returned"
    /\ UNCHANGED <<FLAGS, slot_filling_classifier, entities, model_outputs,
                   nl_fillers, cm_slots>>
    /\ UNCHANGED <<normalizer, clean_data>>

InitTranslate ==
    /\ NoNormalize /\ NoDump
    /\ FLAGS = <<>>
    /\ slot_filling_classifier = "None"
    /\ entities = unbound
    /\ model_outputs = step_not_run
    /\ nl_fillers = unbound
    /\ cm_slots = unbound
    /\ translate_pc = "call"

NextTranslate ==
    TranslateFun \/ Tokenize \/ ModelStep \/ Fillers \/ Decode \/ Prediction
        \/ Returns

\* one call of translate_fun, with any flags and either classifier
SpecTranslate == InitTranslate /\ [][NextTranslate]_vars

\* ------------------------------------------------------------ the tree
Ids == 1..Len(nodes)

IsUnary(i) == nodes[i].kind = "unarylogicop"

IsBinary(i) == nodes[i].kind = "binarylogicop"

\* nodes that take their value from a word: argument leaves (head commands,
\* flags, arguments) and logic operators
IsArgument(i) == nodes[i].num_child = 0

TokenNode(i) == IsArgument(i) \/ IsUnary(i) \/ IsBinary(i)

RECURSIVE Flatten(_)
Flatten(ss) == IF ss = <<>> THEN <<>> ELSE Head(ss) \o Flatten(Tail(ss))

\* parent before children, children left to right
RECURSIVE PreOrder(_)
PreOrder(i) ==
    <<i>> \o Flatten([k \in 1..Len(nodes[i].children) |->
                         PreOrder(nodes[i].children[k])])

Increasing(s) == \A i \in 1..(Len(s) - 1) : s[i] < s[i + 1]

Returned == pc = "done" /\ result = "tree"

\* ------------------------------------------------------------- claims

\* C1: every structural error met during normalization (an ambiguous attach
\* point, a compound command after `;`, a unary operator with no right
\* sibling) makes normalize_ast return None.
C1_StructuralErrorReturnsNone ==
    (pc = "done"
        /\ raised \in {"attach point", "compound command", "missing operand"})
    => result = "None"

\* C2: whenever a raw node of an unsupported kind was read, as a part of a
\* command or by normalize, with or without a parts list, normalize_ast
\* returns None (stated for an ASCII command text).
C2_UnsupportedReturnsNone ==
    (pc = "done" /\ encode_utf8_ok(cmd)
        /\ \E i \in 1..Len(raws) : raws[i].kind \in unsupported_kinds)
    => result = "None"

\* C3: whenever a pipeline raw node with an even number of parts was read,
\* normalize_ast returns None.
C3_EvenPipelineReturnsNone ==
    (pc = "done"
        /\ \E i \in 1..Len(raws) :
              raws[i].kind = "pipeline" /\ raws[i].nparts % 2 = 0)
    => result = "None"

\* C4: after a parser failure, and for a text that is empty after newline
\* collapsing and stripping, normalize_ast returns None.
C4_ParserFailureReturnsNone ==
    (pc = "done" /\ (raised \in ParserFailures \/ cmd = <<>>))
    => result = "None"

\* C5: when the call has ended in or after the absorption pass, a flag node
\* built from the token right after a unary logic operator token is that
\* operator node's sole child and has the operator as its parent.
C5_UnaryAbsorbsNextFlag ==
    (pc = "done" /\ (result = "tree" \/ raised = "missing operand")) =>
        \A u, v \in Ids :
            (IsUnary(u) /\ nodes[v].kind = "flag"
                /\ nodes[v].tok = nodes[u].tok + 1)
            => (nodes[u].children = <<v>> /\ nodes[v].parent = u)

\* C6: every binary-logic-op node of a returned tree has exactly two
\* children.
C6_BinaryHasTwoChildren ==
    Returned => \A b \in Ids : IsBinary(b) => Len(nodes[b].children) = 2

\* C7: no flag node and no logic-operator node is built from a dash-leading
\* token read after `--`.
C7_AfterDashDashOnlyArguments ==
    \A i \in Ids :
        (nodes[i].eoo /\ is_option(nodes[i].word))
        => nodes[i].kind \notin {"flag", "unarylogicop", "binarylogicop"}

\* `tar`, whitespace, then a word that starts with a word character
IsBareTar(t) ==
    /\ startswith(t, W_tar \o <<" ">>)
    /\ LET rest == lstrip(SubSeq(t, 4, Len(t)))
       IN  rest # <<>> /\ rest[1] \in WordChars

\* the same text with a dash before the option cluster
DashedForm(t) ==
    LET rest == lstrip(SubSeq(t, 4, Len(t)))
    IN  SubSeq(t, 1, Len(t) - Len(rest)) \o <<"-">> \o rest

\* C8: for a text that begins with `tar` and a bare option cluster,
\* special_command_normalization yields the explicitly dashed form, which is
\* also what it yields for the dashed form (so both parse to the same tree).
C8_BareTarYieldsDashedForm ==
    (pc = "special done" /\ IsBareTar(cmd_in))
    => /\ cmd = DashedForm(cmd_in)
       /\ special_command_normalization(DashedForm(cmd_in)) = cmd

TokensInPreOrder == SelectSeq(PreOrder(1), TokenNode)

\* C10: in a returned tree the pre-order traversal lists every head-command,
\* flag, logic-operator and argument node, in the order their tokens were
\* read.
C10_PreOrderIsTokenOrder ==
    Returned =>
        LET po == TokensInPreOrder
        IN  /\ \A k \in 1..(Len(po) - 1) : nodes[po[k]].tok < nodes[po[k + 1]].tok
            /\ {po[k] : k \in 1..Len(po)} = {i \in Ids : TokenNode(i)}

\* C10's case: a returned tree in which the absorption pass has moved a flag
\* with its argument under a unary operator that a later token follows
C10_Witness ==
    /\ Returned
    /\ \E u, v, w \in Ids :
          /\ IsUnary(u) /\ nodes[u].children = <<v>>
          /\ nodes[v].kind = "flag" /\ nodes[v].children # <<>>
          /\ nodes[w].parent = nodes[u].parent /\ nodes[w].tok > nodes[v].tok

\* kind, value and children, in order, of the subtree at node i of arena ns
RECURSIVE Shape(_, _)
Shape(ns, i) ==
    <<ns[i].kind, ns[i].value,
      [k \in 1..Len(ns[i].children) |-> Shape(ns, ns[i].children[k])]>>

C12_ChildrenWithinArity ==
    \A i \in Ids :
        nodes[i].num_child >= 0 => Len(nodes[i].children) <= nodes[i].num_child

\* how many times x occurs in the sequence s
Occurrences(s, x) == Cardinality({k \in 1..Len(s) : s[k] = x})

\* following parent links from node i reaches the root within k steps
RECURSIVE ReachesRoot(_, _)
ReachesRoot(i, k) ==
    IF i = 1 THEN TRUE
    ELSE IF i = 0 \/ k = 0 THEN FALSE
    ELSE ReachesRoot(nodes[i].parent, k - 1)

\* C13: in every state between the steps of construction the structure is
\* a tree: every non-root node occurs exactly once in its parent's children
\* and in no other node's children, and its parent links reach the root.
C13_StructureIsTree ==
    \A n \in Ids \ {1} :
        /\ nodes[n].parent \in Ids
        /\ \A p \in Ids :
              Occurrences(nodes[p].children, n)
                  = (IF p = nodes[n].parent THEN 1 ELSE 0)
        /\ ReachesRoot(n, Len(nodes))

\* C13's case: nodes were attached under a head command and the absorption
\* pass has moved one of them under a unary operator
C13_Witness ==
    \E u, h \in Ids :
        /\ IsUnary(u) /\ nodes[u].children # <<>>
        /\ nodes[h].kind = "headcommand" /\ nodes[u].parent = h

\* C14: when the parser has yielded more than one root, the call ends only
\* after normalize was given the first root: the extra roots cause no
\* failure of their own.
C14_ExtraRootsCauseNoFailure ==
    (pc = "done" /\ nroots > 1) =>
        (raws # <<>> /\ raised # "multiple root nodes")

\* C15: no logic-operator node is a child of a flag.
C15_LogicOpNeverUnderFlag ==
    \A i \in Ids :
        (IsUnary(i) \/ IsBinary(i)) => nodes[nodes[i].parent].kind # "flag"

\* node x is node s or lies beneath it
RECURSIVE InSubtree(_, _)
InSubtree(x, s) ==
    IF x = s THEN TRUE
    ELSE IF x = 0 \/ nodes[x].parent = 0 THEN FALSE
    ELSE InSubtree(nodes[x].parent, s)

\* raw node j is a `;` that closes the utility whose head command is node s:
\* s was opened under a flag, and between s and j no further utility was
\* opened and no other `;` was read
Closes(j, s) ==
    /\ nodes[s].kind = "headcommand"
    /\ nodes[nodes[s].parent].kind = "flag"
    /\ j \in (nodes[s].tok + 1)..Len(raws)
    /\ raws[j].word = W_semi
    /\ \A k \in (nodes[s].tok + 1)..(j - 1) :
          raws[k].word \notin {W_semi} \cup head_commands

\* C16: once a `;` has closed a utility that was opened under a flag, no node
\* built from a later token lies in that utility's subtree.
C16_NothingAttachedInClosedUtility ==
    \A s, x \in Ids : \A j \in 1..Len(raws) :
        (Closes(j, s) /\ nodes[x].tok > j) => ~InSubtree(x, s)

\* raw node k is a quoted word that equals a head-command name
QuotedHeadCommand(k) ==
    /\ raws[k].kind = "word"
    /\ raws[k].word \in head_commands
    /\ raws[k].span # Len(raws[k].word)

\* C17: when no error was met, exactly one node was built from each quoted
\* word that equals a head-command name, and it is an argument node.
C17_QuotedHeadCommandIsArgument ==
    raised = "" =>
        \A k \in 1..Len(raws) :
            QuotedHeadCommand(k) =>
                /\ Cardinality({i \in Ids : nodes[i].tok = k}) = 1
                /\ \A i \in Ids : nodes[i].tok = k => nodes[i].kind = "argument"

\* C18: when normalize has been given a list raw node of more than two
\* parts, normalize_ast returns None.
C18_LongListReturnsNone ==
    (pc = "done"
        /\ \E k \in 1..Len(raws) : raws[k].kind = "list" /\ raws[k].nparts > 2)
    => result = "None"

\* the command and pipe raw nodes read, in the order read
IsStageOrPipe(r) == r.kind \in {"command", "pipe"}

StagesAndPipes == SelectSeq(raws, IsStageOrPipe)

\* the parser's tree was one pipeline of commands alternating with pipes,
\* each command of at least one unquoted plain word other than `;` and `--`,
\* and all of it has been read
AlternatingPipeline ==
    /\ raws # <<>> /\ raws[1].kind = "pipeline"
    /\ \A k \in 2..Len(raws) :
          /\ raws[k].kind \in {"command", "pipe", "word"}
          /\ raws[k].first = "none"
          /\ raws[k].kind = "word" =>
                /\ raws[k].span = Len(raws[k].word)
                /\ raws[k].word \notin {W_semi, W_dashdash}
          /\ raws[k].kind = "command" =>
                (k < Len(raws) /\ raws[k + 1].kind = "word")
    /\ Len(StagesAndPipes) = raws[1].nparts
    /\ \A k \in 1..Len(StagesAndPipes) :
          StagesAndPipes[k].kind = (IF k % 2 = 1 THEN "command" ELSE "pipe")

\* C19: the tree returned for a pipeline of 2k-1 parts alternating command
\* and pipe has a pipeline node with exactly k children, each a head-command
\* node, and no node was built from a pipe.
C19_PipelineChildrenAreHeadCommands ==
    (Returned /\ AlternatingPipeline) =>
        /\ nodes[2].kind = "pipeline"
        /\ Len(nodes[2].children) = (raws[1].nparts + 1) \div 2
        /\ \A k \in 1..Len(nodes[2].children) :
              nodes[nodes[2].children[k]].kind = "headcommand"
        /\ \A i \in Ids : nodes[i].tok > 0 => raws[nodes[i].tok].kind # "pipe"

\* raw node k is a word whose first part is a process substitution, and
\* normalize was given it
ProcessSubstitutionWord(k) ==
    /\ raws[k].kind = "word" /\ raws[k].first = "processsubstitution"
    /\ (k < Len(raws) \/ raised = "")

C21_FlagsNeverNest ==
    \A i \in Ids :
        nodes[i].kind = "flag" =>
            nodes[nodes[i].parent].kind \in {"headcommand", "unarylogicop"}

\* C21's case: a flag read with the cursor on a flag became that flag's
\* sibling, and a later flag was absorbed by a unary operator
C21_Witness ==
    \E f, g, h, u \in Ids :
        /\ nodes[f].kind = "flag" /\ nodes[g].kind = "flag"
        /\ nodes[g].tok = nodes[f].tok + 1
        /\ nodes[g].parent = nodes[f].parent
        /\ nodes[h].kind = "flag" /\ IsUnary(u) /\ nodes[h].parent = u

\* the token right after the token of unary operator u produced a node that
\* was attached as u's right sibling (and has since stayed there or been
\* absorbed by u)
FollowedBySibling(u) ==
    \E v \in Ids :
        /\ nodes[v].tok = nodes[u].tok + 1
        /\ (nodes[v].lsb = u \/ nodes[v].parent = u)

\* C22: when the call has ended in or after the absorption pass and every
\* unary logic operator was followed by a sibling, the pass met no error and
\* every unary-logic-op node has exactly one child.
C22_AbsorptionCompletes ==
    (pc = "done" /\ (result = "tree" \/ raised = "missing operand")
        /\ \A u \in Ids : IsUnary(u) => FollowedBySibling(u))
    => /\ result = "tree"
       /\ \A u \in Ids : IsUnary(u) => Len(nodes[u].children) = 1

\* C23: special_command_normalization returns the text unchanged, or, for a
\* text that begins with `tar` and a bare option cluster, the text with one
\* dash inserted before that cluster; nothing else is changed.
C23_OnlyLeadingClusterDashed ==
    pc = "special done" =>
        IF IsBareTar(cmd_in)
        THEN cmd \in {cmd_in, DashedForm(cmd_in)}
        ELSE cmd = cmd_in

\* raw node r matches no rule of normalize: it is of no kind normalize
\* names and has no parts list
MatchesNoRule(r) ==
    /\ r.kind \notin {"word", "pipeline", "list", "commandsubstitution",
                      "processsubstitution", "command", "pipe"}
    /\ r.kind \notin unsupported_kinds
    /\ ~r.hasParts

\* C24: when normalize_ast has returned a tree, no raw node that was visited
\* matches no rule of normalize: such a node makes the call return None.
C24_NoRawNodeSkipped ==
    Returned => \A k \in 1..Len(raws) : ~MatchesNoRule(raws[k])

InputPairs ==
    UNION {UNION {{<<nl, c>> : c \in pairs_in[u][nl]} :
                    nl \in DOMAIN pairs_in[u]} : u \in DOMAIN pairs_in}

\* the url clusters that neither pass has merged into another
Remaining ==
    {u \in DOMAIN pairs :
       u \notin merged_urls_by_nl /\ u \notin merged_urls_by_cmd}

\* the folds that hold the tuple of an input pair
FoldsOf(p) ==
    {ind \in DOMAIN data :
       <<strip_replace(p[1]), strip_replace(p[2])>> \in data[ind]}

\* C26: after the two merging passes of dump_data no two remaining url
\* clusters hold descriptions of one template or commands of one template,
\* every input pair is in a remaining cluster, and when the data is dumped
\* the pairs that share a template are in one and the same fold.
C26_ClustersShareNoTemplate ==
    /\ dump_pc.at \in {"fold", "dumped"} =>
          /\ \A u, v \in Remaining :
                u # v => /\ templates(pairs[u], "nl")
                              \cap templates(pairs[v], "nl") = {}
                         /\ templates(pairs[u], "cmd")
                              \cap templates(pairs[v], "cmd") = {}
          /\ \A p \in InputPairs : \E u \in Remaining :
                p[1] \in DOMAIN pairs[u] /\ p[2] \in pairs[u][p[1]]
    /\ dump_pc.at = "dumped" =>
          \A p, q \in InputPairs :
             (\/ nl_template(p[1]) = nl_template(q[1])
              \/ cmd2template(p[2]) = cmd2template(q[2]))
             => \E ind \in DOMAIN data : FoldsOf(p) = {ind} /\ FoldsOf(q) = {ind}

\* C26's case: a pass merged a url into a later one whose description has
\* the same template in another text, two clusters remain and went to
\* different folds
C26_Witness ==
    /\ dump_pc.at = "dumped"
    /\ \E u \in merged_urls_by_nl, v \in Remaining :
          /\ DOMAIN pairs_in[u] # DOMAIN pairs_in[v]
          /\ DOMAIN pairs_in[u] \subseteq DOMAIN pairs[v]
    /\ \E u, v \in Remaining : u # v
    /\ \E ind, ind2 \in DOMAIN data :
          ind # ind2 /\ data[ind] # {} /\ data[ind2] # {}

\* C27: every call that translate_fun makes to decode satisfies the
\* assertions at the top of decode; with argument-slot filling enabled decode
\* fails no assertion and goes on to its outputs.
C27_DecodeAssertionsHold ==
    /\ translate_pc = "decode" =>
          decode_asserts(nl_fillers, slot_filling_classifier, model_outputs)
    /\ translate_pc # "AssertionError in decode"

====
